---------------------------- MODULE Spec2Model ----------------------------
(***************************************************************************)
(* A model of grab-judicial-nominees.py: the slug and text utilities, the  *)
(* "Load More" link collector, the per-nominee scraper and main().         *)
(*                                                                         *)
(* A Python str is a sequence of one-character strings, so that split,     *)
(* rstrip, startswith, the regular expression and sorted() are computed    *)
(* character by character as the interpreter computes them.                *)
(***************************************************************************)
EXTENDS Integers, Sequences, FiniteSets, TLC

(***************************************************************************)
(* Bounds of the enumerated inputs.                                        *)
(***************************************************************************)
MaxTail == 5
MaxElems == 3
MaxAnchors == 1
MaxPages == 2
MaxCards == 2

(***************************************************************************)
(* Strings.                                                                *)
(***************************************************************************)
Ord(c) ==
    CASE c = "\n" -> 10 [] c = " " -> 32 [] c = "." -> 46 [] c = "/" -> 47
      [] c = "1" -> 49 [] c = "2" -> 50
      [] c = ":" -> 58
      [] c = "A" -> 65 [] c = "B" -> 66 [] c = "C" -> 67 [] c = "O" -> 79
      [] c = "a" -> 97 [] c = "b" -> 98 [] c = "d" -> 100 [] c = "e" -> 101
      [] c = "f" -> 102 [] c = "g" -> 103 [] c = "h" -> 104 [] c = "i" -> 105
      [] c = "j" -> 106 [] c = "k" -> 107 [] c = "m" -> 109 [] c = "n" -> 110
      [] c = "o" -> 111 [] c = "p" -> 112 [] c = "r" -> 114
      [] c = "s" -> 115 [] c = "t" -> 116 [] c = "u" -> 117 [] c = "v" -> 118
      [] c = "w" -> 119 [] c = "x" -> 120

\* str < str: lexicographic by code point, a proper prefix first
RECURSIVE StrLess(_, _)
StrLess(a, b) ==
    IF b = <<>> THEN FALSE
    ELSE IF a = <<>> THEN TRUE
    ELSE IF Ord(Head(a)) # Ord(Head(b)) THEN Ord(Head(a)) < Ord(Head(b))
    ELSE StrLess(Tail(a), Tail(b))

StartsWith(s, prefix) ==
    /\ Len(s) >= Len(prefix)
    /\ SubSeq(s, 1, Len(prefix)) = prefix

\* str.rstrip("/")
RECURSIVE RStripSlash(_)
RStripSlash(s) ==
    IF s # <<>> /\ s[Len(s)] = "/" THEN RStripSlash(SubSeq(s, 1, Len(s) - 1))
    ELSE s

\* str.split("/"): the pieces between the separators, empty pieces kept
RECURSIVE SplitSlash(_)
SplitSlash(s) ==
    IF \A i \in 1..Len(s) : s[i] # "/" THEN <<s>>
    ELSE LET k == CHOOSE i \in 1..Len(s) :
                      s[i] = "/" /\ \A j \in 1..(i - 1) : s[j] # "/"
         IN  <<SubSeq(s, 1, k - 1)>> \o SplitSlash(SubSeq(s, k + 1, Len(s)))

\* [p for p in pieces if p]
RECURSIVE NonEmpty(_)
NonEmpty(pieces) ==
    IF pieces = <<>> THEN <<>>
    ELSE IF Head(pieces) = <<>> THEN NonEmpty(Tail(pieces))
    ELSE <<Head(pieces)>> \o NonEmpty(Tail(pieces))

RECURSIVE Concat(_)
Concat(pieces) ==
    IF pieces = <<>> THEN <<>> ELSE Head(pieces) \o Concat(Tail(pieces))

\* sep.join(pieces)
RECURSIVE Join(_, _)
Join(sep, pieces) ==
    IF pieces = <<>> THEN <<>>
    ELSE IF Len(pieces) = 1 THEN pieces[1]
    ELSE pieces[1] \o sep \o Join(sep, Tail(pieces))

SeqsUpTo(S, n) == UNION {[1..k -> S] : k \in 0..n}

(***************************************************************************)
(* Module constants.                                                       *)
(***************************************************************************)
BASE_URL == <<"h","t","t","p","s",":","/","/","a","f","j",".","o","r","g">>
Http == <<"h","t","t","p">>
Unknown == <<"u","n","k","n","o","w","n">>
\* the literal part of r"/nominee/([^/]+)/?$"
NomineeRe == <<"/","n","o","m","i","n","e","e","/">>

(***************************************************************************)
(* slugify_name                                                            *)
(***************************************************************************)
\* The matches (i, j) of r"/nominee/([^/]+)/?$" in url: the literal starts at
\* i, group 1 is url[i+9..j], then an optional "/" and the end of the string
\* (no URL here ends in a newline, where $ would also match).
NomineeMatches(url) ==
    {m \in (1..Len(url)) \X (1..Len(url)) :
        /\ m[1] + Len(NomineeRe) <= m[2]
        /\ SubSeq(url, m[1], m[1] + Len(NomineeRe) - 1) = NomineeRe
        /\ \A k \in (m[1] + Len(NomineeRe))..m[2] : url[k] # "/"
        /\ \/ m[2] = Len(url)
           \/ m[2] = Len(url) - 1 /\ url[Len(url)] = "/"}

\* re.search: the leftmost match, its group as long as it can be
NomineeSearch(url) ==
    CHOOSE m \in NomineeMatches(url) :
        \A o \in NomineeMatches(url) :
            m[1] < o[1] \/ (m[1] = o[1] /\ m[2] >= o[2])

\* what the fallback splits: the whole URL string
FallbackSource(url) == SplitSlash(RStripSlash(url))

SlugFallback(url) ==
    LET parts == NonEmpty(FallbackSource(url))
    IN  IF parts # <<>> THEN parts[Len(parts)] ELSE Unknown

slugify_name(url) ==
    IF NomineeMatches(url) # {}
    THEN LET m == NomineeSearch(url)
         IN  SubSeq(url, m[1] + Len(NomineeRe), m[2])
    ELSE SlugFallback(url)

(***************************************************************************)
(* html_to_text.  A fragment is the sequence of its elements in document   *)
(* order; an element has a tag name and its text nodes.                    *)
(***************************************************************************)
IsSpace(c) == c = " " \/ c = "\n"

RECURSIVE LStrip(_)
LStrip(s) == IF s # <<>> /\ IsSpace(Head(s)) THEN LStrip(Tail(s)) ELSE s

RECURSIVE RStrip(_)
RStrip(s) ==
    IF s # <<>> /\ IsSpace(s[Len(s)]) THEN RStrip(SubSeq(s, 1, Len(s) - 1))
    ELSE s

Strip(s) == LStrip(RStrip(s))

RECURSIVE StripAll(_)
StripAll(nodes) ==
    IF nodes = <<>> THEN <<>>
    ELSE <<Strip(Head(nodes))>> \o StripAll(Tail(nodes))

\* tag.get_text(separator=" ", strip=True)
get_text(tag) == Join(<<" ">>, NonEmpty(StripAll(tag.nodes)))

SelectedNames ==
    {<<"p">>, <<"h","1">>, <<"h","2">>, <<"h","3">>, <<"h","4">>,
     <<"h","5">>, <<"h","6">>}

\* soup.find_all(["p", "h1", ..., "h6"])
RECURSIVE find_all(_)
find_all(html) ==
    IF html = <<>> THEN <<>>
    ELSE IF Head(html).name \in SelectedNames
         THEN <<Head(html)>> \o find_all(Tail(html))
         ELSE find_all(Tail(html))

IsHeading(tag) == StartsWith(tag.name, <<"h">>)

\* variant: no blank line put before a heading
HeadingLeadMut(lines) == <<>>

\* if lines: lines.append("")
HeadingLead(lines) == IF lines # <<>> THEN <<<<>>>> ELSE <<>>

\* one iteration of the loop over the selected tags
AppendBlock(lines, tag) ==
    LET text == get_text(tag)
    IN  IF text = <<>> THEN lines
        ELSE IF IsHeading(tag)
             THEN lines \o HeadingLead(lines) \o <<text>> \o <<<<>>>>
             ELSE lines \o <<text>> \o <<<<>>>>

RECURSIVE AppendBlocks(_, _)
AppendBlocks(lines, tags) ==
    IF tags = <<>> THEN lines
    ELSE AppendBlocks(AppendBlock(lines, Head(tags)), Tail(tags))

\* while lines and not lines[-1]: lines.pop()
RECURSIVE PopTrailing(_)
PopTrailing(lines) ==
    IF lines # <<>> /\ lines[Len(lines)] = <<>>
    THEN PopTrailing(SubSeq(lines, 1, Len(lines) - 1))
    ELSE lines

html_to_text(html) ==
    Join(<<"\n">>, PopTrailing(AppendBlocks(<<>>, find_all(html))))


(***************************************************************************)
(* The environment: the listing site and the profile pages.                *)
(*                                                                         *)
(* A page of the listing is the hrefs of its a.overlink1.card8-link        *)
(* anchors in document order and the state of its a[more] control.  A      *)
(* listing is the pages the site shows after 0, 1, 2, ... clicks of the    *)
(* control; a click on the last page leaves that page as it is.            *)
(***************************************************************************)
HrefA == <<"/","n","o","m","i","n","e","e","/","a","/">>
\* another page whose last path segment is also "a"
HrefA2 == <<"/","x","/","a">>
HrefAbsA == BASE_URL \o HrefA
HrefAbsB == BASE_URL \o <<"/","n","o","m","i","n","e","e","/","b","/">>
NoHref == <<>>

MoreStates == {"absent", "hidden", "visible"}

Hrefs == {HrefA, HrefAbsA, HrefAbsB, NoHref}
Pages == [anchors : SeqsUpTo(Hrefs, MaxAnchors), more : MoreStates]
Listings == SeqsUpTo(Pages, MaxPages) \ {<<>>}

MainHrefs == {HrefA, HrefA2, HrefAbsB}
MainCards == SeqsUpTo(MainHrefs, MaxCards)
MainListings ==
    {<<[anchors |-> c, more |-> m]>> : c \in MainCards, m \in {"absent", "hidden"}}
    \cup {<<[anchors |-> SubSeq(c, 1, Len(c) - 1), more |-> "visible"],
            [anchors |-> c, more |-> "hidden"]>> : c \in MainCards \ {<<>>}}

\* the inner HTML of div.body1 on a populated profile page, and on a bare one
ProfileHtml(url) ==
    <<[name |-> <<"h","1">>, nodes |-> <<slugify_name(url)>>],
      [name |-> <<"d","i","v">>, nodes |-> <<<<"x">>>>],
      [name |-> <<"p">>, nodes |-> <<<<" ">>, url>>]>>
BareHtml == <<[name |-> <<"p">>, nodes |-> <<<<" ">>>>]>>

OldText == <<"O">>
None == <<"None">>
NoFiles == [s \in {} |-> <<>>]
\* the output directory before the first run
InitDirs ==
    {[exists |-> FALSE, files |-> NoFiles],
     [exists |-> TRUE, files |-> NoFiles],
     [exists |-> TRUE, files |-> [s \in {<<"a">>} |-> OldText]]}

(***************************************************************************)
(* State.                                                                  *)
(***************************************************************************)
VARIABLES
    pc,          \* the position of main(), of the collector or of the scraper
    run,         \* 1: the first run of main(), 2: the run right after it
    files0,      \* history: the files of OUTPUT_DIR when this run began
    dir_exists,  \* OUTPUT_DIR exists
    files,       \* slug -> content of OUTPUT_DIR/<slug>.txt
    playwright,  \* "none", "started", "stopped": the sync_playwright() scope
    browser,     \* "none", "open", "closed"
    listing,     \* the site (fixed: the listing does not change)
    shown,       \* index in listing of the page the browser shows
    links,       \* collect_all_nominee_links: links
    all_links,   \* main: all_links
    idx,         \* main: i, the 1-based position in all_links
    text,        \* main: text, None or a str
    scanned,     \* history: the pages the collector has scanned
    clicked_on,  \* history: the pages whose control was clicked
    navs,        \* history: profile URLs navigated to in this run
    nwrites,     \* history: write_text calls in this run
    sleeps,      \* history: time.sleep(0.5) calls in this run
    skips,       \* history: URLs skipped in this run
    all_text,    \* history: every scrape of this run returned non-empty text
    first,       \* history: how the first run ended
    s_url, s_slug, s_pc,              \* slugify_name applied to one URL
    t_html, t_tags, t_lines, t_out, t_pc  \* html_to_text applied to one fragment

mainVars == <<pc, run, files0, dir_exists, files, playwright, browser, listing, shown,
              links, all_links, idx, text, scanned, clicked_on, navs, nwrites,
              sleeps, skips, all_text, first>>
slugVars == <<s_url, s_slug, s_pc>>
textVars == <<t_html, t_tags, t_lines, t_out, t_pc>>
vars == <<mainVars, slugVars, textVars>>

NoFirst == [ended |-> "none", files |-> NoFiles, all_text |-> FALSE]

SlugIdle == s_url = <<>> /\ s_slug = <<>> /\ s_pc = "idle"
TextIdle ==
    t_html = <<>> /\ t_tags = <<>> /\ t_lines = <<>> /\ t_out = <<>> /\ t_pc = "idle"
MainIdle ==
    /\ pc = "idle" /\ run = 1 /\ dir_exists = FALSE /\ files = NoFiles
    /\ files0 = NoFiles
    /\ playwright = "none" /\ browser = "none" /\ listing = <<>> /\ shown = 1
    /\ links = {} /\ all_links = <<>> /\ idx = 1 /\ text = None
    /\ scanned = {} /\ clicked_on = {} /\ navs = {} /\ nwrites = 0
    /\ sleeps = 0 /\ skips = 0 /\ all_text = TRUE /\ first = NoFirst

(***************************************************************************)
(* slugify_name as a process: one URL in, its slug out.                    *)
(***************************************************************************)
UrlHeads == {<<>>, BASE_URL}
UrlPieces == {<<"/">>, <<"a">>, <<"n","o","m","i","n","e","e">>, <<"b">>}
UrlInputs == {h \o Concat(t) : h \in UrlHeads, t \in SeqsUpTo(UrlPieces, MaxTail)}

InitSlug ==
    /\ MainIdle /\ TextIdle
    /\ s_url \in UrlInputs /\ s_slug = <<>> /\ s_pc = "call"

\* match = re.search(...); if match: return match.group(1)
SlugMatch ==
    /\ s_pc = "call" /\ NomineeMatches(s_url) # {}
    /\ s_slug' = slugify_name(s_url) /\ s_pc' = "done"
    /\ UNCHANGED <<s_url, mainVars, textVars>>

\* the fallback: parts[-1] if parts else "unknown"
SlugNoMatch ==
    /\ s_pc = "call" /\ NomineeMatches(s_url) = {}
    /\ s_slug' = slugify_name(s_url) /\ s_pc' = "done"
    /\ UNCHANGED <<s_url, mainVars, textVars>>

NextSlug == SlugMatch \/ SlugNoMatch
SpecSlug == InitSlug /\ [][NextSlug]_vars

(***************************************************************************)
(* html_to_text as a process: one fragment in, its text out.               *)
(***************************************************************************)
TagNames == {<<"p">>, <<"h","2">>, <<"d","i","v">>}
TextNodes == {<<>>, <<<<" ">>>>, <<<<"A">>>>, <<<<" ","B">>, <<"C"," ">>>>}
Elements == [name : TagNames, nodes : TextNodes]
HtmlInputs == SeqsUpTo(Elements, MaxElems)

InitText ==
    /\ MainIdle /\ SlugIdle
    /\ t_html \in HtmlInputs /\ t_tags = <<>> /\ t_lines = <<>> /\ t_out = <<>>
    /\ t_pc = "parse"

\* soup = BeautifulSoup(html); lines = []; the tags of find_all
TextParse ==
    /\ t_pc = "parse"
    /\ t_tags' = find_all(t_html) /\ t_lines' = <<>> /\ t_pc' = "loop"
    /\ UNCHANGED <<t_html, t_out, mainVars, slugVars>>

\* if not text: continue
TextSkipEmpty ==
    /\ t_pc = "loop" /\ t_tags # <<>> /\ get_text(Head(t_tags)) = <<>>
    /\ t_lines' = AppendBlock(t_lines, Head(t_tags)) /\ t_tags' = Tail(t_tags)
    /\ UNCHANGED <<t_html, t_out, t_pc, mainVars, slugVars>>

TextHeading ==
    /\ t_pc = "loop" /\ t_tags # <<>> /\ get_text(Head(t_tags)) # <<>>
    /\ IsHeading(Head(t_tags))
    /\ t_lines' = AppendBlock(t_lines, Head(t_tags)) /\ t_tags' = Tail(t_tags)
    /\ UNCHANGED <<t_html, t_out, t_pc, mainVars, slugVars>>

TextParagraph ==
    /\ t_pc = "loop" /\ t_tags # <<>> /\ get_text(Head(t_tags)) # <<>>
    /\ ~IsHeading(Head(t_tags))
    /\ t_lines' = AppendBlock(t_lines, Head(t_tags)) /\ t_tags' = Tail(t_tags)
    /\ UNCHANGED <<t_html, t_out, t_pc, mainVars, slugVars>>

\* the trailing blank lines popped, and the join
TextJoin ==
    /\ t_pc = "loop" /\ t_tags = <<>>
    /\ t_lines' = PopTrailing(t_lines)
    /\ t_out' = Join(<<"\n">>, PopTrailing(t_lines)) /\ t_pc' = "done"
    /\ UNCHANGED <<t_html, t_tags, mainVars, slugVars>>

NextText == TextParse \/ TextSkipEmpty \/ TextHeading \/ TextParagraph \/ TextJoin
SpecText == InitText /\ [][NextText]_vars

(***************************************************************************)
(* collect_all_nominee_links                                               *)
(***************************************************************************)
\* full = href if href.startswith("http") else BASE_URL + href
FullUrl(href) == IF StartsWith(href, Http) THEN href ELSE BASE_URL \o href

\* the for loop over the anchors: every truthy href, made absolute
AnchorUrls(anchors) ==
    {FullUrl(anchors[k]) : k \in {j \in 1..Len(anchors) : anchors[j] # NoHref}}

\* variant: links rebuilt at every scan instead of accumulated
ScanIntoMut(old, anchors) == AnchorUrls(anchors)

\* links.add(full) for each anchor of the page
ScanInto(old, anchors) == old \cup AnchorUrls(anchors)

MinStr(S) == CHOOSE x \in S : \A y \in S \ {x} : StrLess(x, y)

RECURSIVE Sorted(_)
Sorted(S) ==
    IF S = {} THEN <<>>
    ELSE <<MinStr(S)>> \o Sorted(S \ {MinStr(S)})

\* what the collector hands back: sorted(links)
ReturnValue(S) == Sorted(S)

\* variant: the is_visible() test left out
ClickableMut(page) == page.more # "absent"

\* load_more is found and load_more.is_visible()
Clickable(page) == page.more = "visible"

\* an exception leaves the function and every caller up to the with block
Raise == pc' = "unwinding"

\* page.goto(NOMINEES_URL); page.wait_for_timeout(2000); links = set()
CollectGoto ==
    /\ pc = "collect"
    /\ \/ pc' = "scan" /\ shown' = 1 /\ links' = {}
       \/ Raise /\ UNCHANGED <<shown, links>>
    /\ UNCHANGED <<run, files0, dir_exists, files, playwright, browser, listing,
                   all_links, idx, text, scanned, clicked_on, navs, nwrites,
                   sleeps, skips, all_text, first, slugVars, textVars>>

\* anchors = page.query_selector_all(...); the for loop
CollectScan ==
    /\ pc = "scan"
    /\ links' = ScanInto(links, listing[shown].anchors)
    /\ scanned' = scanned \cup {shown}
    /\ pc' = "more"
    /\ UNCHANGED <<run, files0, dir_exists, files, playwright, browser, listing, shown,
                   all_links, idx, text, clicked_on, navs, nwrites, sleeps,
                   skips, all_text, first, slugVars, textVars>>

\* if not load_more: break
CollectNoButton ==
    /\ pc = "more" /\ listing[shown].more = "absent"
    /\ pc' = "sorted"
    /\ UNCHANGED <<run, files0, dir_exists, files, playwright, browser, listing, shown,
                   links, all_links, idx, text, scanned, clicked_on, navs,
                   nwrites, sleeps, skips, all_text, first, slugVars, textVars>>

\* if not load_more.is_visible(): break
CollectNotVisible ==
    /\ pc = "more" /\ listing[shown].more # "absent"
    /\ ~Clickable(listing[shown])
    /\ pc' = "sorted"
    /\ UNCHANGED <<run, files0, dir_exists, files, playwright, browser, listing, shown,
                   links, all_links, idx, text, scanned, clicked_on, navs,
                   nwrites, sleeps, skips, all_text, first, slugVars, textVars>>

\* load_more.click(); page.wait_for_timeout(2500)
CollectClick ==
    /\ pc = "more" /\ listing[shown].more # "absent"
    /\ Clickable(listing[shown])
    /\ clicked_on' = clicked_on \cup {shown}
    /\ \/ /\ pc' = "scan"
          /\ shown' = IF shown < Len(listing) THEN shown + 1 ELSE shown
       \/ Raise /\ UNCHANGED shown
    /\ UNCHANGED <<run, files0, dir_exists, files, playwright, browser, listing, links,
                   all_links, idx, text, scanned, navs, nwrites, sleeps, skips,
                   all_text, first, slugVars, textVars>>

\* return sorted(links), and main's all_links = ...
CollectReturn ==
    /\ pc = "sorted"
    /\ all_links' = ReturnValue(links)
    /\ idx' = 1
    /\ pc' = "loop"
    /\ UNCHANGED <<run, files0, dir_exists, files, playwright, browser, listing, shown,
                   links, text, scanned, clicked_on, navs, nwrites, sleeps,
                   skips, all_text, first, slugVars, textVars>>

NextLinks ==
    \/ CollectGoto \/ CollectScan \/ CollectNoButton \/ CollectNotVisible
    \/ CollectClick \/ CollectReturn

\* the state in which main() calls the collector, on one of the listings L
InitCollector(L) ==
    /\ SlugIdle /\ TextIdle
    /\ pc = "collect" /\ run = 1 /\ dir_exists = TRUE /\ files = NoFiles
    /\ files0 = NoFiles
    /\ playwright = "started" /\ browser = "open"
    /\ listing \in L /\ shown = 1
    /\ links = {} /\ all_links = <<>> /\ idx = 1 /\ text = None
    /\ scanned = {} /\ clicked_on = {} /\ navs = {} /\ nwrites = 0
    /\ sleeps = 0 /\ skips = 0 /\ all_text = TRUE /\ first = NoFirst

InitLinks == InitCollector(Listings)
SpecLinks == InitLinks /\ [][NextLinks]_vars

\* The pagination loop alone, over listings whose pages differ in their
\* control.  The script is sequential: a step that can be taken is taken.
LoopPages == [anchors : {<<>>, <<HrefA>>}, more : MoreStates]
InitLoop == InitCollector(SeqsUpTo(LoopPages, MaxPages) \ {<<>>})
SpecLoop == InitLoop /\ [][NextLinks]_vars /\ WF_vars(NextLinks)

(***************************************************************************)
(* scrape_nominee.  Each attempt meets whatever the network and the page   *)
(* give it: a failed navigation, a page without div.body1, a failed        *)
(* inner_html(), a bare container or a populated one.                      *)
(***************************************************************************)
collVars == <<shown, links, scanned, clicked_on>>
outVars == <<dir_exists, files, nwrites>>
sysVars == <<run, files0, playwright, browser, listing, first>>

Url == all_links[idx]

\* variant: no try/except around the scrape
ScrapeRaiseMut == Raise /\ UNCHANGED <<text, all_text>>

\* except Exception as e: print(...); return None
ScrapeRaise == pc' = "scraped" /\ text' = None /\ all_text' = FALSE

\* page.goto(url, timeout=30000); page.wait_for_timeout(1000)
ScrapeGoto ==
    /\ pc = "goto"
    /\ navs' = navs \cup {Url}
    /\ \/ pc' = "query" /\ UNCHANGED <<text, all_text>>
       \/ ScrapeRaise
    /\ UNCHANGED <<all_links, idx, sleeps, skips, collVars, outVars, sysVars,
                   slugVars, textVars>>

\* el = page.query_selector("div.body1"); if not el: return None
ScrapeQuery ==
    /\ pc = "query"
    /\ \/ pc' = "extract" /\ UNCHANGED <<text, all_text>>
       \/ pc' = "scraped" /\ text' = None /\ all_text' = FALSE
       \/ ScrapeRaise
    /\ UNCHANGED <<all_links, idx, navs, sleeps, skips, collVars, outVars,
                   sysVars, slugVars, textVars>>

\* html = el.inner_html(); return html_to_text(html)
ScrapeExtract ==
    /\ pc = "extract"
    /\ \/ \E html \in {ProfileHtml(Url), BareHtml} :
              /\ text' = html_to_text(html)
              /\ all_text' = (all_text /\ html_to_text(html) # <<>>)
              /\ pc' = "scraped"
       \/ ScrapeRaise
    /\ UNCHANGED <<all_links, idx, navs, sleeps, skips, collVars, outVars,
                   sysVars, slugVars, textVars>>

(***************************************************************************)
(* main                                                                    *)
(***************************************************************************)
\* OUTPUT_DIR.mkdir(exist_ok=True)
MainMkdir ==
    /\ pc = "start"
    /\ dir_exists' = TRUE
    /\ pc' = "playwright"
    /\ UNCHANGED <<files, nwrites, all_links, idx, text, navs, sleeps, skips,
                   all_text, collVars, sysVars, slugVars, textVars>>

\* with sync_playwright() as p:
MainEnterWith ==
    /\ pc = "playwright"
    /\ \/ playwright' = "started" /\ pc' = "launch"
       \/ playwright' = playwright /\ pc' = "raised"
    /\ UNCHANGED <<run, files0, browser, listing, first, all_links, idx, text, navs,
                   sleeps, skips, all_text, collVars, outVars, slugVars, textVars>>

\* browser = p.chromium.launch(headless=False)
MainLaunch ==
    /\ pc = "launch"
    /\ \/ browser' = "open" /\ pc' = "new_page"
       \/ browser' = browser /\ Raise
    /\ UNCHANGED <<run, files0, playwright, listing, first, all_links, idx, text, navs,
                   sleeps, skips, all_text, collVars, outVars, slugVars, textVars>>

\* context = browser.new_context(); page = context.new_page()
MainNewPage ==
    /\ pc = "new_page"
    /\ \/ pc' = "collect"
       \/ Raise
    /\ UNCHANGED <<all_links, idx, text, navs, sleeps, skips, all_text,
                   collVars, outVars, sysVars, slugVars, textVars>>

\* variant: the exists() test always false
ExistsMut(slug) == FALSE

\* out_path.exists()
Exists(slug) == slug \in DOMAIN files

\* variant: a skip that still goes through the delay, without advancing
MainSkipMut ==
    /\ pc = "loop" /\ idx <= Len(all_links)
    /\ Exists(slugify_name(Url))
    /\ skips' = skips + 1
    /\ pc' = "sleep"
    /\ UNCHANGED <<all_links, idx, text, navs, sleeps, all_text, collVars,
                   outVars, sysVars, slugVars, textVars>>

\* if out_path.exists(): print("Skipping ..."); continue
MainSkip ==
    /\ pc = "loop" /\ idx <= Len(all_links)
    /\ Exists(slugify_name(Url))
    /\ idx' = idx + 1
    /\ skips' = skips + 1
    /\ UNCHANGED <<pc, all_links, text, navs, sleeps, all_text, collVars,
                   outVars, sysVars, slugVars, textVars>>

\* text = scrape_nominee(page, url): the call
MainScrape ==
    /\ pc = "loop" /\ idx <= Len(all_links)
    /\ ~Exists(slugify_name(Url))
    /\ pc' = "goto"
    /\ UNCHANGED <<all_links, idx, text, navs, sleeps, skips, all_text,
                   collVars, outVars, sysVars, slugVars, textVars>>

\* if text: out_path.write_text(text, encoding="utf-8").  A write that fails
\* leaves no file, or the file it had opened, empty.
MainWrite ==
    /\ pc = "scraped" /\ text # None /\ text # <<>>
    /\ nwrites' = nwrites + 1
    /\ \/ files' = (slugify_name(Url) :> text) @@ files /\ pc' = "sleep"
       \/ files' = files /\ Raise
       \/ files' = (slugify_name(Url) :> <<>>) @@ files /\ Raise
    /\ UNCHANGED <<dir_exists, all_links, idx, text, navs, sleeps, skips,
                   all_text, collVars, sysVars, slugVars, textVars>>

\* else: print("No content saved ...")
MainNoContent ==
    /\ pc = "scraped" /\ (text = None \/ text = <<>>)
    /\ pc' = "sleep"
    /\ UNCHANGED <<all_links, idx, text, navs, sleeps, skips, all_text,
                   collVars, outVars, sysVars, slugVars, textVars>>

\* time.sleep(0.5), and the next iteration
MainSleep ==
    /\ pc = "sleep"
    /\ sleeps' = sleeps + 1
    /\ idx' = idx + 1
    /\ pc' = "loop"
    /\ UNCHANGED <<all_links, text, navs, skips, all_text, collVars, outVars,
                   sysVars, slugVars, textVars>>

\* browser.close(), after the loop
MainClose ==
    /\ pc = "loop" /\ idx > Len(all_links)
    /\ browser' = "closed"
    /\ pc' = "leaving"
    /\ UNCHANGED <<run, files0, playwright, listing, first, all_links, idx, text, navs,
                   sleeps, skips, all_text, collVars, outVars, slugVars, textVars>>

\* variant: a scope whose end leaves the browser as it is
DriverStopMut(b) == b

\* the end of the sync_playwright() scope stops the Playwright driver, and the
\* driver takes the browsers it launched down with it
DriverStop(b) == IF b = "open" THEN "closed" ELSE b

\* the with block is left: normally, or by an exception passing through
MainExitWith ==
    /\ pc \in {"leaving", "unwinding"}
    /\ playwright' = "stopped"
    /\ browser' = DriverStop(browser)
    /\ pc' = IF pc = "leaving" THEN "done" ELSE "raised"
    /\ UNCHANGED <<run, files0, listing, first, all_links, idx, text, navs, sleeps,
                   skips, all_text, collVars, outVars, slugVars, textVars>>

\* the script is run a second time, against the same listing
MainAgain ==
    /\ pc \in {"done", "raised"} /\ run = 1
    /\ run' = 2
    /\ files0' = files
    /\ first' = [ended |-> pc, files |-> files, all_text |-> all_text]
    /\ pc' = "start"
    /\ playwright' = "none" /\ browser' = "none"
    /\ shown' = 1 /\ links' = {} /\ scanned' = {} /\ clicked_on' = {}
    /\ all_links' = <<>> /\ idx' = 1 /\ text' = None
    /\ navs' = {} /\ nwrites' = 0 /\ sleeps' = 0 /\ skips' = 0
    /\ all_text' = TRUE
    /\ UNCHANGED <<dir_exists, files, listing, slugVars, textVars>>

Init ==
    /\ SlugIdle /\ TextIdle
    /\ pc = "start" /\ run = 1
    /\ \E d \in InitDirs :
          dir_exists = d.exists /\ files = d.files /\ files0 = d.files
    /\ playwright = "none" /\ browser = "none"
    /\ listing \in MainListings /\ shown = 1
    /\ links = {} /\ all_links = <<>> /\ idx = 1 /\ text = None
    /\ scanned = {} /\ clicked_on = {} /\ navs = {} /\ nwrites = 0
    /\ sleeps = 0 /\ skips = 0 /\ all_text = TRUE /\ first = NoFirst

Next ==
    \/ MainMkdir \/ MainEnterWith \/ MainLaunch \/ MainNewPage
    \/ CollectGoto \/ CollectScan \/ CollectNoButton \/ CollectNotVisible
    \/ CollectClick \/ CollectReturn
    \/ MainSkip \/ MainScrape
    \/ ScrapeGoto \/ ScrapeQuery \/ ScrapeExtract
    \/ MainWrite \/ MainNoContent \/ MainSleep
    \/ MainClose \/ MainExitWith \/ MainAgain

Spec == Init /\ [][Next]_vars

(***************************************************************************)
(* Properties.                                                             *)
(***************************************************************************)
Slug(i) == slugify_name(all_links[i])
FirstRunCompleted == run = 2 /\ pc = "done" /\ first.ended = "done"

C2_NeverOverwritten ==
    [][/\ \A s \in DOMAIN files : s \in DOMAIN files' /\ files'[s] = files[s]
       /\ nwrites' = nwrites + 1 => slugify_name(Url) \notin DOMAIN files]_vars

\* a second URL with the slug of a file written earlier in the same run
C2_Witness ==
    /\ pc = "done" /\ Len(all_links) = 2 /\ Slug(1) = Slug(2)
    /\ files0 = NoFiles /\ nwrites = 1 /\ skips = 1

\* C3: a scrape that fails (no container, or an exception) hands None back to
\* main() and never raises; main() then writes nothing for that URL, sleeps
\* and moves on to the next URL; a run that ends normally has reached every
\* URL of the worklist.
C3_FailureIsolated ==
    /\ [][/\ pc \in {"goto", "query", "extract"} =>
                /\ pc' \in {"query", "extract", "scraped"}
                /\ files' = files /\ idx' = idx /\ all_links' = all_links
          /\ (pc = "scraped" /\ text = None) =>
                pc' = "sleep" /\ files' = files /\ nwrites' = nwrites
          /\ pc = "sleep" =>
                pc' = "loop" /\ idx' = idx + 1 /\ files' = files]_vars
    /\ [](pc \in {"leaving", "done"} =>
             /\ idx = Len(all_links) + 1
             /\ skips + sleeps = Len(all_links))

\* the first URL failed and has no file; the second was scraped and saved
C3_Witness ==
    /\ pc = "done" /\ run = 1 /\ files0 = NoFiles
    /\ Len(all_links) = 2 /\ ~all_text
    /\ DOMAIN files = {Slug(2)} /\ Slug(1) # Slug(2)

RECURSIVE WithText(_)
WithText(tags) ==
    IF tags = <<>> THEN <<>>
    ELSE IF get_text(Head(tags)) # <<>>
         THEN <<Head(tags)>> \o WithText(Tail(tags))
         ELSE WithText(Tail(tags))

Blocks == WithText(find_all(t_html))
TwoHeadings ==
    /\ t_pc = "done" /\ Len(Blocks) = 2
    /\ IsHeading(Blocks[1]) /\ IsHeading(Blocks[2])

\* C5, as stated: two consecutive non-empty headings come out as
\* heading1, one blank line, heading2.
C5_OneBlankLine ==
    TwoHeadings =>
        t_out = get_text(Blocks[1]) \o <<"\n", "\n">> \o get_text(Blocks[2])

\* C5, amended: two consecutive non-empty headings come out as heading1, two
\* blank lines (the one after heading1 and the one before heading2), heading2.
C5_TwoBlankLines ==
    TwoHeadings =>
        t_out = get_text(Blocks[1]) \o <<"\n", "\n", "\n">> \o get_text(Blocks[2])

C5_Witness == TwoHeadings /\ Len(t_html) = 3

\* the path of a URL: what follows the host of scheme://host, else all of it
UrlPath(url) ==
    IF StartsWith(url, BASE_URL) THEN SubSeq(url, Len(BASE_URL) + 1, Len(url))
    ELSE url
PathSegments(url) == NonEmpty(SplitSlash(UrlPath(url)))

\* C6: the slug is the last non-empty path segment of the URL, and "unknown"
\* when the URL has none; the host is never the slug.
C6_LastPathSegment ==
    s_pc = "done" =>
        s_slug = IF PathSegments(s_url) # <<>>
                 THEN PathSegments(s_url)[Len(PathSegments(s_url))]
                 ELSE Unknown

\* C7: from an empty output directory, a run over a listing without a
\* load-more control in which every scrape returns non-empty text ends with
\* one non-empty file per URL, named by its slug: n files for n URLs.
C7_OneFilePerUrl ==
    (/\ pc = "done" /\ files0 = NoFiles /\ all_text
     /\ Len(listing) = 1 /\ listing[1].more = "absent") =>
        /\ Cardinality(DOMAIN files) = Len(all_links)
        /\ \A i \in 1..Len(all_links) :
               Slug(i) \in DOMAIN files /\ files[Slug(i)] # <<>>

\* C8: a profile URL is navigated to only when its output file is absent; a
\* URL whose file exists is passed over with no navigation, no write and no
\* delay.
C8_SkipWithoutVisit ==
    [][/\ (navs' # navs /\ run' = run) =>
              /\ navs' = navs \cup {Url}
              /\ slugify_name(Url) \notin DOMAIN files
       /\ (/\ pc = "loop" /\ idx <= Len(all_links)
           /\ slugify_name(Url) \in DOMAIN files) =>
              /\ navs' = navs /\ nwrites' = nwrites /\ sleeps' = sleeps
              /\ files' = files /\ idx' = idx + 1 /\ pc' = "loop"]_vars

\* one URL was skipped and another visited in the same run
C8_Witness ==
    /\ pc = "done" /\ Len(all_links) = 2
    /\ skips = 1 /\ Cardinality(navs) = 1 /\ sleeps = 1

\* the truthy hrefs of the pages scanned so far
ScannedHrefs ==
    {h \in UNION {{listing[k].anchors[j] : j \in 1..Len(listing[k].anchors)} :
                    k \in scanned} : h # NoHref}

\* C9: the list the collector returns is strictly ascending (sorted, no
\* duplicate) and holds exactly the absolute URLs of the links present at
\* its scans, the scan after the last click included.
C9_SortedUniqueComplete ==
    pc = "loop" =>
        /\ \A i, j \in 1..Len(all_links) :
               i < j => StrLess(all_links[i], all_links[j])
        /\ {all_links[i] : i \in 1..Len(all_links)}
             = {IF StartsWith(h, Http) THEN h ELSE BASE_URL \o h : h \in ScannedHrefs}
        /\ scanned = 1..shown
        /\ clicked_on = 1..(shown - 1)

\* two links, the one rendered by the click sorting before the first page's
C9_Witness ==
    /\ pc = "loop" /\ Len(all_links) = 2 /\ clicked_on = {1} /\ shown = 2
    /\ all_links[1] = FullUrl(listing[2].anchors[1])
    /\ all_links[2] = FullUrl(listing[1].anchors[1])

\* some page of the listing has its control absent or not visible
Exhausts == \E k \in 1..Len(listing) : listing[k].more # "visible"

\* C10: the control is clicked only where it is present and visible; where
\* it is absent or not visible the loop ends without a click; the collector
\* returns when the control ends up absent or not visible (unless a call
\* raises), and never returns while the control stays visible.
C10_PaginationLoop ==
    /\ [](\A k \in clicked_on : listing[k].more = "visible")
    /\ [][(pc = "more" /\ listing[shown].more # "visible") =>
              pc' = "sorted" /\ clicked_on' = clicked_on]_vars
    /\ [](pc \in {"sorted", "loop"} => listing[shown].more # "visible")
    /\ (Exhausts => <>(pc \in {"loop", "unwinding"}))
    /\ (~Exhausts => [](pc \notin {"sorted", "loop"}))

\* the loop ended at a hidden control, after one click
C10_Witness ==
    /\ pc = "loop" /\ clicked_on = {1} /\ shown = 2
    /\ listing[2].more = "hidden"

=============================================================================
